---------------------------- MODULE Spec2Model ----------------------------
(***************************************************************************)
(* A model of src/bot.py: a Telegram bot that answers every text message   *)
(* either with an OpenAI chat completion or with a local Hausa/English     *)
(* fallback responder.                                                     *)
(*                                                                         *)
(* A Python string the program computes with is the sequence of its code   *)
(* points, each a number (ord); S(<<"a", "b">>) writes an ASCII string by  *)
(* its characters.  A string literal the program only passes on (the URL,  *)
(* the model name, the system prompt, header values, the exit message) is  *)
(* a TLA+ string.  A Python value that may be None is a record: NoneV, or  *)
(* Str(s) for the string s.                                                *)
(***************************************************************************)
EXTENDS Integers, Sequences, FiniteSets, TLC

(***************************************************************************)
(* Bounds of the model.                                                    *)
(***************************************************************************)
\* longest inbound text enumerated exhaustively over TextAlphabet
MaxTextLen == 3
\* most updates the transport delivers (and handles concurrently) in a run
MaxUpdates == 2

(***************************************************************************)
(* Program constants.                                                      *)
(***************************************************************************)
\* bot.py:114  if len(reply) > 4096
MaxReplyLength == 4096
\* bot.py:115  reply[:4000]
TruncateKeep == 4000

(***************************************************************************)
(* Python values.                                                          *)
(***************************************************************************)
NoneV == [tag |-> "none"]
Str(s) == [tag |-> "str", val |-> s]

\* Python truthiness of an Optional[str]: None and "" are falsy.
Truthy(v) == v.tag = "str" /\ v.val # <<>>

\* the expression  v or default  for an Optional[str] v and a string default
OrElse(v, default) == IF Truthy(v) THEN v.val ELSE default

\* the ASCII characters from code point 32 to 91, and from 97 to 126
AsciiFrom32 ==
    <<" ", "!", "\"", "#", "$", "%", "&", "'", "(", ")", "*", "+", ",", "-",
      ".", "/", "0", "1", "2", "3", "4", "5", "6", "7", "8", "9", ":", ";",
      "<", "=", ">", "?", "@", "A", "B", "C", "D", "E", "F", "G", "H", "I",
      "J", "K", "L", "M", "N", "O", "P", "Q", "R", "S", "T", "U", "V", "W",
      "X", "Y", "Z", "[">>

AsciiFrom97 ==
    <<"a", "b", "c", "d", "e", "f", "g", "h", "i", "j", "k", "l", "m", "n",
      "o", "p", "q", "r", "s", "t", "u", "v", "w", "x", "y", "z", "{", "|",
      "}", "~">>

\* ord(c) of an ASCII character
Code ==
    [c \in {AsciiFrom32[i] : i \in 1..Len(AsciiFrom32)}
            \cup {AsciiFrom97[i] : i \in 1..Len(AsciiFrom97)}
            \cup {"\t", "\n", "\f", "\r", "]", "^", "_"} |->
        CASE c = "\t" -> 9
          [] c = "\n" -> 10
          [] c = "\f" -> 12
          [] c = "\r" -> 13
          [] c = "]" -> 93
          [] c = "^" -> 94
          [] c = "_" -> 95
          [] \E i \in 1..Len(AsciiFrom32) : AsciiFrom32[i] = c ->
                31 + CHOOSE i \in 1..Len(AsciiFrom32) : AsciiFrom32[i] = c
          [] OTHER -> 96 + CHOOSE i \in 1..Len(AsciiFrom97) : AsciiFrom97[i] = c]

\* the string of the ASCII characters t[1], t[2], ...
S(t) == [i \in 1..Len(t) |-> Code[t[i]]]

\* the character c repeated n times
Rep(c, n) == [i \in 1..n |-> Code[c]]

(***************************************************************************)
(* str.lower(): the Unicode lower-case mapping (Unicode 14.0, the tables   *)
(* of the Python 3.11 the program runs on).  Every code point maps to one  *)
(* code point, except U+0130, which maps to two, and U+03A3 (capital       *)
(* sigma), which maps to the final or the medial small sigma by context.   *)
(***************************************************************************)
\* <<first, last, step, delta>>: every step-th code point from first to last
\* lower-cases to itself plus delta
LowerRuns ==
    { <<65, 90, 1, 32>>, <<192, 214, 1, 32>>, <<216, 222, 1, 32>>,
      <<256, 302, 2, 1>>, <<306, 310, 2, 1>>, <<313, 327, 2, 1>>,
      <<330, 374, 2, 1>>, <<376, 376, 1, -121>>, <<377, 381, 2, 1>>,
      <<385, 385, 1, 210>>, <<386, 388, 2, 1>>, <<390, 390, 1, 206>>,
      <<391, 391, 1, 1>>, <<393, 394, 1, 205>>, <<395, 395, 1, 1>>,
      <<398, 398, 1, 79>>, <<399, 399, 1, 202>>, <<400, 400, 1, 203>>,
      <<401, 401, 1, 1>>, <<403, 403, 1, 205>>, <<404, 404, 1, 207>>,
      <<406, 406, 1, 211>>, <<407, 407, 1, 209>>, <<408, 408, 1, 1>>,
      <<412, 412, 1, 211>>, <<413, 413, 1, 213>>, <<415, 415, 1, 214>>,
      <<416, 420, 2, 1>>, <<422, 422, 1, 218>>, <<423, 423, 1, 1>>,
      <<425, 425, 1, 218>>, <<428, 428, 1, 1>>, <<430, 430, 1, 218>>,
      <<431, 431, 1, 1>>, <<433, 434, 1, 217>>, <<435, 437, 2, 1>>,
      <<439, 439, 1, 219>>, <<440, 440, 1, 1>>, <<444, 444, 1, 1>>,
      <<452, 452, 1, 2>>, <<453, 453, 1, 1>>, <<455, 455, 1, 2>>,
      <<456, 456, 1, 1>>, <<458, 458, 1, 2>>, <<459, 475, 2, 1>>,
      <<478, 494, 2, 1>>, <<497, 497, 1, 2>>, <<498, 500, 2, 1>>,
      <<502, 502, 1, -97>>, <<503, 503, 1, -56>>, <<504, 542, 2, 1>>,
      <<544, 544, 1, -130>>, <<546, 562, 2, 1>>, <<570, 570, 1, 10795>>,
      <<571, 571, 1, 1>>, <<573, 573, 1, -163>>, <<574, 574, 1, 10792>>,
      <<577, 577, 1, 1>>, <<579, 579, 1, -195>>, <<580, 580, 1, 69>>,
      <<581, 581, 1, 71>>, <<582, 590, 2, 1>>, <<880, 882, 2, 1>>,
      <<886, 886, 1, 1>>, <<895, 895, 1, 116>>, <<902, 902, 1, 38>>,
      <<904, 906, 1, 37>>, <<908, 908, 1, 64>>, <<910, 911, 1, 63>>,
      <<913, 929, 1, 32>>, <<931, 939, 1, 32>>, <<975, 975, 1, 8>>,
      <<984, 1006, 2, 1>>, <<1012, 1012, 1, -60>>, <<1015, 1015, 1, 1>>,
      <<1017, 1017, 1, -7>>, <<1018, 1018, 1, 1>>, <<1021, 1023, 1, -130>>,
      <<1024, 1039, 1, 80>>, <<1040, 1071, 1, 32>>, <<1120, 1152, 2, 1>>,
      <<1162, 1214, 2, 1>>, <<1216, 1216, 1, 15>>, <<1217, 1229, 2, 1>>,
      <<1232, 1326, 2, 1>>, <<1329, 1366, 1, 48>>, <<4256, 4293, 1, 7264>>,
      <<4295, 4295, 1, 7264>>, <<4301, 4301, 1, 7264>>,
      <<5024, 5103, 1, 38864>>, <<5104, 5109, 1, 8>>,
      <<7312, 7354, 1, -3008>>, <<7357, 7359, 1, -3008>>,
      <<7680, 7828, 2, 1>>, <<7838, 7838, 1, -7615>>, <<7840, 7934, 2, 1>>,
      <<7944, 7951, 1, -8>>, <<7960, 7965, 1, -8>>, <<7976, 7983, 1, -8>>,
      <<7992, 7999, 1, -8>>, <<8008, 8013, 1, -8>>, <<8025, 8031, 2, -8>>,
      <<8040, 8047, 1, -8>>, <<8072, 8079, 1, -8>>, <<8088, 8095, 1, -8>>,
      <<8104, 8111, 1, -8>>, <<8120, 8121, 1, -8>>, <<8122, 8123, 1, -74>>,
      <<8124, 8124, 1, -9>>, <<8136, 8139, 1, -86>>, <<8140, 8140, 1, -9>>,
      <<8152, 8153, 1, -8>>, <<8154, 8155, 1, -100>>, <<8168, 8169, 1, -8>>,
      <<8170, 8171, 1, -112>>, <<8172, 8172, 1, -7>>,
      <<8184, 8185, 1, -128>>, <<8186, 8187, 1, -126>>,
      <<8188, 8188, 1, -9>>, <<8486, 8486, 1, -7517>>,
      <<8490, 8490, 1, -8383>>, <<8491, 8491, 1, -8262>>,
      <<8498, 8498, 1, 28>>, <<8544, 8559, 1, 16>>, <<8579, 8579, 1, 1>>,
      <<9398, 9423, 1, 26>>, <<11264, 11311, 1, 48>>, <<11360, 11360, 1, 1>>,
      <<11362, 11362, 1, -10743>>, <<11363, 11363, 1, -3814>>,
      <<11364, 11364, 1, -10727>>, <<11367, 11371, 2, 1>>,
      <<11373, 11373, 1, -10780>>, <<11374, 11374, 1, -10749>>,
      <<11375, 11375, 1, -10783>>, <<11376, 11376, 1, -10782>>,
      <<11378, 11378, 1, 1>>, <<11381, 11381, 1, 1>>,
      <<11390, 11391, 1, -10815>>, <<11392, 11490, 2, 1>>,
      <<11499, 11501, 2, 1>>, <<11506, 11506, 1, 1>>, <<42560, 42604, 2, 1>>,
      <<42624, 42650, 2, 1>>, <<42786, 42798, 2, 1>>, <<42802, 42862, 2, 1>>,
      <<42873, 42875, 2, 1>>, <<42877, 42877, 1, -35332>>,
      <<42878, 42886, 2, 1>>, <<42891, 42891, 1, 1>>,
      <<42893, 42893, 1, -42280>>, <<42896, 42898, 2, 1>>,
      <<42902, 42920, 2, 1>>, <<42922, 42922, 1, -42308>>,
      <<42923, 42923, 1, -42319>>, <<42924, 42924, 1, -42315>>,
      <<42925, 42925, 1, -42305>>, <<42926, 42926, 1, -42308>>,
      <<42928, 42928, 1, -42258>>, <<42929, 42929, 1, -42282>>,
      <<42930, 42930, 1, -42261>>, <<42931, 42931, 1, 928>>,
      <<42932, 42946, 2, 1>>, <<42948, 42948, 1, -48>>,
      <<42949, 42949, 1, -42307>>, <<42950, 42950, 1, -35384>>,
      <<42951, 42953, 2, 1>>, <<42960, 42960, 1, 1>>, <<42966, 42968, 2, 1>>,
      <<42997, 42997, 1, 1>>, <<65313, 65338, 1, 32>>,
      <<66560, 66599, 1, 40>>, <<66736, 66771, 1, 40>>,
      <<66928, 66938, 1, 39>>, <<66940, 66954, 1, 39>>,
      <<66956, 66962, 1, 39>>, <<66964, 66965, 1, 39>>,
      <<68736, 68786, 1, 64>>, <<71840, 71871, 1, 32>>,
      <<93760, 93791, 1, 32>>, <<125184, 125217, 1, 34>> }

LowerTable ==
    [c \in UNION {{r[1] + r[3] * k : k \in 0..((r[2] - r[1]) \div r[3])} : r \in LowerRuns} |->
        c + (CHOOSE r \in LowerRuns :
                r[1] <= c /\ c <= r[2] /\ (c - r[1]) % r[3] = 0)[4]]

HasLower == DOMAIN LowerTable

\* code points that are cased and not case-ignorable, as <<first, last>>
CasedRanges ==
    { <<65, 90>>, <<97, 122>>, <<170, 170>>, <<181, 181>>, <<186, 186>>,
      <<192, 214>>, <<216, 246>>, <<248, 442>>, <<444, 447>>, <<452, 659>>,
      <<661, 687>>, <<880, 883>>, <<886, 887>>, <<891, 893>>, <<895, 895>>,
      <<902, 902>>, <<904, 906>>, <<908, 908>>, <<910, 929>>, <<931, 1013>>,
      <<1015, 1153>>, <<1162, 1327>>, <<1329, 1366>>, <<1376, 1416>>,
      <<4256, 4293>>, <<4295, 4295>>, <<4301, 4301>>, <<4304, 4346>>,
      <<4349, 4351>>, <<5024, 5109>>, <<5112, 5117>>, <<7296, 7304>>,
      <<7312, 7354>>, <<7357, 7359>>, <<7424, 7467>>, <<7531, 7543>>,
      <<7545, 7578>>, <<7680, 7957>>, <<7960, 7965>>, <<7968, 8005>>,
      <<8008, 8013>>, <<8016, 8023>>, <<8025, 8025>>, <<8027, 8027>>,
      <<8029, 8029>>, <<8031, 8061>>, <<8064, 8116>>, <<8118, 8124>>,
      <<8126, 8126>>, <<8130, 8132>>, <<8134, 8140>>, <<8144, 8147>>,
      <<8150, 8155>>, <<8160, 8172>>, <<8178, 8180>>, <<8182, 8188>>,
      <<8450, 8450>>, <<8455, 8455>>, <<8458, 8467>>, <<8469, 8469>>,
      <<8473, 8477>>, <<8484, 8484>>, <<8486, 8486>>, <<8488, 8488>>,
      <<8490, 8493>>, <<8495, 8500>>, <<8505, 8505>>, <<8508, 8511>>,
      <<8517, 8521>>, <<8526, 8526>>, <<8544, 8575>>, <<8579, 8580>>,
      <<9398, 9449>>, <<11264, 11387>>, <<11390, 11492>>, <<11499, 11502>>,
      <<11506, 11507>>, <<11520, 11557>>, <<11559, 11559>>, <<11565, 11565>>,
      <<42560, 42605>>, <<42624, 42651>>, <<42786, 42863>>, <<42865, 42887>>,
      <<42891, 42894>>, <<42896, 42954>>, <<42960, 42961>>, <<42963, 42963>>,
      <<42965, 42969>>, <<42997, 42998>>, <<43002, 43002>>, <<43824, 43866>>,
      <<43872, 43880>>, <<43888, 43967>>, <<64256, 64262>>, <<64275, 64279>>,
      <<65313, 65338>>, <<65345, 65370>>, <<66560, 66639>>, <<66736, 66771>>,
      <<66776, 66811>>, <<66928, 66938>>, <<66940, 66954>>, <<66956, 66962>>,
      <<66964, 66965>>, <<66967, 66977>>, <<66979, 66993>>, <<66995, 67001>>,
      <<67003, 67004>>, <<68736, 68786>>, <<68800, 68850>>, <<71840, 71903>>,
      <<93760, 93823>>, <<119808, 119892>>, <<119894, 119964>>,
      <<119966, 119967>>, <<119970, 119970>>, <<119973, 119974>>,
      <<119977, 119980>>, <<119982, 119993>>, <<119995, 119995>>,
      <<119997, 120003>>, <<120005, 120069>>, <<120071, 120074>>,
      <<120077, 120084>>, <<120086, 120092>>, <<120094, 120121>>,
      <<120123, 120126>>, <<120128, 120132>>, <<120134, 120134>>,
      <<120138, 120144>>, <<120146, 120485>>, <<120488, 120512>>,
      <<120514, 120538>>, <<120540, 120570>>, <<120572, 120596>>,
      <<120598, 120628>>, <<120630, 120654>>, <<120656, 120686>>,
      <<120688, 120712>>, <<120714, 120744>>, <<120746, 120770>>,
      <<120772, 120779>>, <<122624, 122633>>, <<122635, 122654>>,
      <<125184, 125251>>, <<127280, 127305>>, <<127312, 127337>>,
      <<127344, 127369>> }

\* code points that are case-ignorable, as <<first, last>>
CaseIgnorableRanges ==
    { <<39, 39>>, <<46, 46>>, <<58, 58>>, <<94, 94>>, <<96, 96>>,
      <<168, 168>>, <<173, 173>>, <<175, 175>>, <<180, 180>>, <<183, 184>>,
      <<688, 879>>, <<884, 885>>, <<890, 890>>, <<900, 901>>, <<903, 903>>,
      <<1155, 1161>>, <<1369, 1369>>, <<1375, 1375>>, <<1425, 1469>>,
      <<1471, 1471>>, <<1473, 1474>>, <<1476, 1477>>, <<1479, 1479>>,
      <<1524, 1524>>, <<1536, 1541>>, <<1552, 1562>>, <<1564, 1564>>,
      <<1600, 1600>>, <<1611, 1631>>, <<1648, 1648>>, <<1750, 1757>>,
      <<1759, 1768>>, <<1770, 1773>>, <<1807, 1807>>, <<1809, 1809>>,
      <<1840, 1866>>, <<1958, 1968>>, <<2027, 2037>>, <<2042, 2042>>,
      <<2045, 2045>>, <<2070, 2093>>, <<2137, 2139>>, <<2184, 2184>>,
      <<2192, 2193>>, <<2200, 2207>>, <<2249, 2306>>, <<2362, 2362>>,
      <<2364, 2364>>, <<2369, 2376>>, <<2381, 2381>>, <<2385, 2391>>,
      <<2402, 2403>>, <<2417, 2417>>, <<2433, 2433>>, <<2492, 2492>>,
      <<2497, 2500>>, <<2509, 2509>>, <<2530, 2531>>, <<2558, 2558>>,
      <<2561, 2562>>, <<2620, 2620>>, <<2625, 2626>>, <<2631, 2632>>,
      <<2635, 2637>>, <<2641, 2641>>, <<2672, 2673>>, <<2677, 2677>>,
      <<2689, 2690>>, <<2748, 2748>>, <<2753, 2757>>, <<2759, 2760>>,
      <<2765, 2765>>, <<2786, 2787>>, <<2810, 2815>>, <<2817, 2817>>,
      <<2876, 2876>>, <<2879, 2879>>, <<2881, 2884>>, <<2893, 2893>>,
      <<2901, 2902>>, <<2914, 2915>>, <<2946, 2946>>, <<3008, 3008>>,
      <<3021, 3021>>, <<3072, 3072>>, <<3076, 3076>>, <<3132, 3132>>,
      <<3134, 3136>>, <<3142, 3144>>, <<3146, 3149>>, <<3157, 3158>>,
      <<3170, 3171>>, <<3201, 3201>>, <<3260, 3260>>, <<3263, 3263>>,
      <<3270, 3270>>, <<3276, 3277>>, <<3298, 3299>>, <<3328, 3329>>,
      <<3387, 3388>>, <<3393, 3396>>, <<3405, 3405>>, <<3426, 3427>>,
      <<3457, 3457>>, <<3530, 3530>>, <<3538, 3540>>, <<3542, 3542>>,
      <<3633, 3633>>, <<3636, 3642>>, <<3654, 3662>>, <<3761, 3761>>,
      <<3764, 3772>>, <<3782, 3782>>, <<3784, 3789>>, <<3864, 3865>>,
      <<3893, 3893>>, <<3895, 3895>>, <<3897, 3897>>, <<3953, 3966>>,
      <<3968, 3972>>, <<3974, 3975>>, <<3981, 3991>>, <<3993, 4028>>,
      <<4038, 4038>>, <<4141, 4144>>, <<4146, 4151>>, <<4153, 4154>>,
      <<4157, 4158>>, <<4184, 4185>>, <<4190, 4192>>, <<4209, 4212>>,
      <<4226, 4226>>, <<4229, 4230>>, <<4237, 4237>>, <<4253, 4253>>,
      <<4348, 4348>>, <<4957, 4959>>, <<5906, 5908>>, <<5938, 5939>>,
      <<5970, 5971>>, <<6002, 6003>>, <<6068, 6069>>, <<6071, 6077>>,
      <<6086, 6086>>, <<6089, 6099>>, <<6103, 6103>>, <<6109, 6109>>,
      <<6155, 6159>>, <<6211, 6211>>, <<6277, 6278>>, <<6313, 6313>>,
      <<6432, 6434>>, <<6439, 6440>>, <<6450, 6450>>, <<6457, 6459>>,
      <<6679, 6680>>, <<6683, 6683>>, <<6742, 6742>>, <<6744, 6750>>,
      <<6752, 6752>>, <<6754, 6754>>, <<6757, 6764>>, <<6771, 6780>>,
      <<6783, 6783>>, <<6823, 6823>>, <<6832, 6862>>, <<6912, 6915>>,
      <<6964, 6964>>, <<6966, 6970>>, <<6972, 6972>>, <<6978, 6978>>,
      <<7019, 7027>>, <<7040, 7041>>, <<7074, 7077>>, <<7080, 7081>>,
      <<7083, 7085>>, <<7142, 7142>>, <<7144, 7145>>, <<7149, 7149>>,
      <<7151, 7153>>, <<7212, 7219>>, <<7222, 7223>>, <<7288, 7293>>,
      <<7376, 7378>>, <<7380, 7392>>, <<7394, 7400>>, <<7405, 7405>>,
      <<7412, 7412>>, <<7416, 7417>>, <<7468, 7530>>, <<7544, 7544>>,
      <<7579, 7679>>, <<8125, 8125>>, <<8127, 8129>>, <<8141, 8143>>,
      <<8157, 8159>>, <<8173, 8175>>, <<8189, 8190>>, <<8203, 8207>>,
      <<8216, 8217>>, <<8228, 8228>>, <<8231, 8231>>, <<8234, 8238>>,
      <<8288, 8292>>, <<8294, 8303>>, <<8305, 8305>>, <<8319, 8319>>,
      <<8336, 8348>>, <<8400, 8432>>, <<11388, 11389>>, <<11503, 11505>>,
      <<11631, 11631>>, <<11647, 11647>>, <<11744, 11775>>, <<11823, 11823>>,
      <<12293, 12293>>, <<12330, 12333>>, <<12337, 12341>>, <<12347, 12347>>,
      <<12441, 12446>>, <<12540, 12542>>, <<40981, 40981>>, <<42232, 42237>>,
      <<42508, 42508>>, <<42607, 42610>>, <<42612, 42621>>, <<42623, 42623>>,
      <<42652, 42655>>, <<42736, 42737>>, <<42752, 42785>>, <<42864, 42864>>,
      <<42888, 42890>>, <<42994, 42996>>, <<43000, 43001>>, <<43010, 43010>>,
      <<43014, 43014>>, <<43019, 43019>>, <<43045, 43046>>, <<43052, 43052>>,
      <<43204, 43205>>, <<43232, 43249>>, <<43263, 43263>>, <<43302, 43309>>,
      <<43335, 43345>>, <<43392, 43394>>, <<43443, 43443>>, <<43446, 43449>>,
      <<43452, 43453>>, <<43471, 43471>>, <<43493, 43494>>, <<43561, 43566>>,
      <<43569, 43570>>, <<43573, 43574>>, <<43587, 43587>>, <<43596, 43596>>,
      <<43632, 43632>>, <<43644, 43644>>, <<43696, 43696>>, <<43698, 43700>>,
      <<43703, 43704>>, <<43710, 43711>>, <<43713, 43713>>, <<43741, 43741>>,
      <<43756, 43757>>, <<43763, 43764>>, <<43766, 43766>>, <<43867, 43871>>,
      <<43881, 43883>>, <<44005, 44005>>, <<44008, 44008>>, <<44013, 44013>>,
      <<64286, 64286>>, <<64434, 64450>>, <<65024, 65039>>, <<65043, 65043>>,
      <<65056, 65071>>, <<65106, 65106>>, <<65109, 65109>>, <<65279, 65279>>,
      <<65287, 65287>>, <<65294, 65294>>, <<65306, 65306>>, <<65342, 65342>>,
      <<65344, 65344>>, <<65392, 65392>>, <<65438, 65439>>, <<65507, 65507>>,
      <<65529, 65531>>, <<66045, 66045>>, <<66272, 66272>>, <<66422, 66426>>,
      <<67456, 67461>>, <<67463, 67504>>, <<67506, 67514>>, <<68097, 68099>>,
      <<68101, 68102>>, <<68108, 68111>>, <<68152, 68154>>, <<68159, 68159>>,
      <<68325, 68326>>, <<68900, 68903>>, <<69291, 69292>>, <<69446, 69456>>,
      <<69506, 69509>>, <<69633, 69633>>, <<69688, 69702>>, <<69744, 69744>>,
      <<69747, 69748>>, <<69759, 69761>>, <<69811, 69814>>, <<69817, 69818>>,
      <<69821, 69821>>, <<69826, 69826>>, <<69837, 69837>>, <<69888, 69890>>,
      <<69927, 69931>>, <<69933, 69940>>, <<70003, 70003>>, <<70016, 70017>>,
      <<70070, 70078>>, <<70089, 70092>>, <<70095, 70095>>, <<70191, 70193>>,
      <<70196, 70196>>, <<70198, 70199>>, <<70206, 70206>>, <<70367, 70367>>,
      <<70371, 70378>>, <<70400, 70401>>, <<70459, 70460>>, <<70464, 70464>>,
      <<70502, 70508>>, <<70512, 70516>>, <<70712, 70719>>, <<70722, 70724>>,
      <<70726, 70726>>, <<70750, 70750>>, <<70835, 70840>>, <<70842, 70842>>,
      <<70847, 70848>>, <<70850, 70851>>, <<71090, 71093>>, <<71100, 71101>>,
      <<71103, 71104>>, <<71132, 71133>>, <<71219, 71226>>, <<71229, 71229>>,
      <<71231, 71232>>, <<71339, 71339>>, <<71341, 71341>>, <<71344, 71349>>,
      <<71351, 71351>>, <<71453, 71455>>, <<71458, 71461>>, <<71463, 71467>>,
      <<71727, 71735>>, <<71737, 71738>>, <<71995, 71996>>, <<71998, 71998>>,
      <<72003, 72003>>, <<72148, 72151>>, <<72154, 72155>>, <<72160, 72160>>,
      <<72193, 72202>>, <<72243, 72248>>, <<72251, 72254>>, <<72263, 72263>>,
      <<72273, 72278>>, <<72281, 72283>>, <<72330, 72342>>, <<72344, 72345>>,
      <<72752, 72758>>, <<72760, 72765>>, <<72767, 72767>>, <<72850, 72871>>,
      <<72874, 72880>>, <<72882, 72883>>, <<72885, 72886>>, <<73009, 73014>>,
      <<73018, 73018>>, <<73020, 73021>>, <<73023, 73029>>, <<73031, 73031>>,
      <<73104, 73105>>, <<73109, 73109>>, <<73111, 73111>>, <<73459, 73460>>,
      <<78896, 78904>>, <<92912, 92916>>, <<92976, 92982>>, <<92992, 92995>>,
      <<94031, 94031>>, <<94095, 94111>>, <<94176, 94177>>, <<94179, 94180>>,
      <<110576, 110579>>, <<110581, 110587>>, <<110589, 110590>>,
      <<113821, 113822>>, <<113824, 113827>>, <<118528, 118573>>,
      <<118576, 118598>>, <<119143, 119145>>, <<119155, 119170>>,
      <<119173, 119179>>, <<119210, 119213>>, <<119362, 119364>>,
      <<121344, 121398>>, <<121403, 121452>>, <<121461, 121461>>,
      <<121476, 121476>>, <<121499, 121503>>, <<121505, 121519>>,
      <<122880, 122886>>, <<122888, 122904>>, <<122907, 122913>>,
      <<122915, 122916>>, <<122918, 122922>>, <<123184, 123197>>,
      <<123566, 123566>>, <<123628, 123631>>, <<125136, 125142>>,
      <<125252, 125259>>, <<127995, 127999>>, <<917505, 917505>>,
      <<917536, 917631>>, <<917760, 917999>> }

Cased == UNION {r[1]..r[2] : r \in CasedRanges}

CaseIgnorable == UNION {r[1]..r[2] : r \in CaseIgnorableRanges}

\* the lower case of one code point other than capital sigma
ToLower(c) ==
    IF c < 128 THEN (IF 65 <= c /\ c <= 90 THEN <<c + 32>> ELSE <<c>>)
    ELSE IF c = 304 THEN <<105, 775>>
    ELSE IF c \in HasLower THEN <<LowerTable[c]>>
    ELSE <<c>>

\* s[i] is a capital sigma in final position: after a cased letter and not
\* before one, case-ignorable code points skipped on both sides
FinalSigma(s, i) ==
    /\ \E j \in 1..(i - 1) :
            /\ s[j] \in Cased
            /\ \A m \in (j + 1)..(i - 1) : s[m] \in CaseIgnorable
    /\ ~\E j \in (i + 1)..Len(s) :
            /\ s[j] \in Cased
            /\ \A m \in (i + 1)..(j - 1) : s[m] \in CaseIgnorable

\* the lower case of the code point at position i of s
LowerAt(s, i) ==
    IF s[i] = 931 THEN (IF FinalSigma(s, i) THEN <<962>> ELSE <<963>>)
    ELSE ToLower(s[i])

Lower(s) ==
    LET wide == {i \in 1..Len(s) : s[i] = 304}
        start(i) == i + Cardinality({k \in wide : k < i})
    IN IF wide = {}
       THEN [i \in 1..Len(s) |-> LowerAt(s, i)[1]]
       ELSE [j \in 1..(Len(s) + Cardinality(wide)) |->
                LET i == CHOOSE i \in 1..Len(s) :
                            start(i) <= j /\ j < start(i) + Len(LowerAt(s, i))
                IN LowerAt(s, i)[j - start(i) + 1]]

(***************************************************************************)
(* str.strip(): drops, at both ends, the code points str.isspace() holds   *)
(* for.                                                                    *)
(***************************************************************************)
Whitespace ==
    {9, 10, 11, 12, 13, 28, 29, 30, 31, 32, 133, 160, 5760}
    \cup 8192..8202 \cup {8232, 8233, 8239, 8287, 12288}

RECURSIVE LStrip(_)
LStrip(s) ==
    IF s # <<>> /\ Head(s) \in Whitespace THEN LStrip(Tail(s)) ELSE s

RECURSIVE RStrip(_)
RStrip(s) ==
    IF s # <<>> /\ s[Len(s)] \in Whitespace
    THEN RStrip(SubSeq(s, 1, Len(s) - 1))
    ELSE s

\* a mutant of Strip: the content is used as received
StripSkipped(s) == s

Strip(s) == RStrip(LStrip(s))

(***************************************************************************)
(* k in s, for strings: the scan of Python's substring test.               *)
(***************************************************************************)
\* k occurs in s at position i
OccursAt(s, k, i) == \A j \in 1..Len(k) : s[i + j - 1] = k[j]

Contains(s, k) == \E i \in 1..(Len(s) - Len(k) + 1) : OccursAt(s, k, i)

(***************************************************************************)
(* The fallback responder of handle_message.                               *)
(***************************************************************************)
hausa_keywords ==
    << S(<<"i", "n", "a">>),
       S(<<"y", "a", "y", "a">>),
       S(<<"l", "a", "f", "i", "y", "a">>),
       S(<<"n", "a", " ", "g", "o", "d", "e">>),
       S(<<"s", "a", "n", "n", "u">>),
       S(<<"a", "s", "s", "a", "l", "a", "m", "u">>),
       S(<<"s", "a", "l", "a", "m">>),
       S(<<"k", "w", "a", "n", "a", "k", "i">>),
       S(<<"m", "e">>) >>

\* a mutant of IsHausa: the keywords are looked up in the text as received
IsHausaCaseSensitive(user_text) ==
    \E j \in 1..Len(hausa_keywords) : Contains(user_text, hausa_keywords[j])

\* any(k in user_lower for k in hausa_keywords), after user_lower = user_text.lower()
IsHausa(user_text) ==
    LET user_lower == Lower(user_text)
    IN \E j \in 1..Len(hausa_keywords) : Contains(user_lower, hausa_keywords[j])

HausaHead ==
    S(<<"N", "a", " ", "j", "i", " ", "s", "a", "k", "o", "n", "k", "a", ",",
      " ">>)

HausaMid ==
    S(<<".", " ">>) \o <<127800>> \o S(<<"\n", "K", "a", "/", "k", "i", " ", "r", "u", "b",
      "u", "t", "a", ":", " ", "\"">>)

HausaTail ==
    S(<<"\"", ".", " ", "Z", "a", "n", " ", "i", "y", "a", " ", "t", "a", "i",
      "m", "a", "k", "a", " ", "m", "a", "k", "a", "/", "k", "i", " ">>)
    \o <<8212>> \o
    S(<<" ", "m", "e", "n", "e", "n", "e", " ", "k", "a", "k", "e",
      "/", "k", "i", "k", "e", " ", "s", "o", " ", "n", "a", " ", "y", "i",
      "?">>)

EnglishHead ==
    S(<<"I", " ", "h", "e", "a", "r", "d", " ", "y", "o", "u", ":", " ", "\"">>)

EnglishTail ==
    S(<<"\"", ".", "\n", "Y", "o", "u", " ", "c", "a", "n", " ", "a", "s", "k",
      " ", "m", "e", " ", "q", "u", "e", "s", "t", "i", "o", "n", "s", " ",
      "o", "r", " ", "s", "a", "y", " ", "h", "i", " ", "(", "e", ".", "g",
      ".", ",", " ", "'", "A", "s", "s", "a", "l", "a", "m", "u", "'", ")",
      ".">>)

HausaReply(user_text, user_first_name) ==
    HausaHead \o user_first_name \o HausaMid \o user_text \o HausaTail

EnglishReply(user_text) == EnglishHead \o user_text \o EnglishTail

FallbackReply(user_text, user_first_name) ==
    IF IsHausa(user_text)
    THEN HausaReply(user_text, user_first_name)
    ELSE EnglishReply(user_text)

(***************************************************************************)
(* The length guard of the completion path.                                *)
(***************************************************************************)
TruncationMarker ==
    S(<<"\n", "\n", "[", "t", "r", "u", "n", "c", "a", "t", "e", "d", "]">>)

\* a mutant of Truncate: the guard is off by one (>= instead of >)
TruncateOffByOne(reply) ==
    IF Len(reply) >= MaxReplyLength
    THEN SubSeq(reply, 1, TruncateKeep) \o TruncationMarker
    ELSE reply

Truncate(reply) ==
    IF Len(reply) > MaxReplyLength
    THEN SubSeq(reply, 1, TruncateKeep) \o TruncationMarker
    ELSE reply

(***************************************************************************)
(* The HTTP exchange of ask_openai_chat.  A response is what requests.post *)
(* produces: an exception (timeout, network error) or a status and a body; *)
(* a body is text that does not parse as JSON, or the parsed value.        *)
(***************************************************************************)
\* resp.raise_for_status(): raises for a 4xx or 5xx status
RaisesForStatus(status) == 400 <= status /\ status < 600

\* data["choices"][0]["message"]["content"] is reachable and is a string
ContentFound(data) ==
    /\ "choices" \in DOMAIN data
    /\ Len(data.choices) >= 1
    /\ "message" \in DOMAIN data.choices[1]
    /\ "content" \in DOMAIN data.choices[1].message
    /\ data.choices[1].message.content.tag = "str"

\* the try block: the stripped content, or None when anything raised
ParseReply(resp) ==
    IF resp.kind # "http" THEN NoneV
    ELSE IF RaisesForStatus(resp.status) THEN NoneV
    ELSE IF ~resp.body.json THEN NoneV
    ELSE IF ~ContentFound(resp.body.data) THEN NoneV
    ELSE Str(Strip(resp.body.data.choices[1].message.content.val))

\* ask_openai_chat as a function of the response its one POST receives
ask_openai_chat(api_key, resp) ==
    IF ~Truthy(api_key) THEN NoneV ELSE ParseReply(resp)

(***************************************************************************)
(* The inputs of a run.  An update is one inbound text message together    *)
(* with what its handling meets outside the program: whether the           *)
(* transport's send_action succeeds, the response of the completion        *)
(* endpoint to the one request made for it, and whether the transport's    *)
(* reply_text succeeds.                                                    *)
(***************************************************************************)
TextAlphabet == {Code["m"], Code["e"], Code["E"]}

\* every string over TextAlphabet of length at most n
StringsUpTo(n) == UNION {[1..k -> TextAlphabet] : k \in 0..n}

EnglishOverhead == Len(EnglishHead) + Len(EnglishTail)

SpecialTexts ==
    { S(<<"h", "e", "l", "l", "o">>),
      S(<<"I", "n", "a", " ", "k", "w", "a", "n", "a">>),
      S(<<"N", "a", " ", "G", "o", "d", "e">>),
      S(<<"n", "a", "g", "o", "d", "e">>),
      S(<<"S", "A", "L", "A", "M">>),
      S(<<"h", "o", "w", " ", "a", "r", "e", " ", "y", "o", "u">>),
      \* KELVIN SIGN, whose lower case is the letter k
      <<8490>> \o S(<<"w", "a", "n", "a", "k", "i">>),
      \* CAPITAL I WITH DOT ABOVE, whose lower case is i and a combining dot
      <<304>> \o S(<<"n", "a">>),
      S(<<"S", "a", "l", "a">>) \o <<304>> \o S(<<"M", "E">>),
      \* CAPITAL E WITH ACUTE
      <<201>> \o S(<<"c", "o", "l", "e">>),
      \* CAPITAL SIGMA in final and in medial position
      S(<<"O", "D", "O">>) \o <<931>> \o S(<<" ">>) \o <<931>> \o S(<<"O">>),
      Rep("x", MaxReplyLength - EnglishOverhead),
      Rep("x", MaxReplyLength - EnglishOverhead + 1),
      Rep("x", MaxReplyLength) }

\* update.message.text: None, or a string of at most MaxReplyLength code points
AllTexts == {NoneV} \cup {Str(s) : s \in StringsUpTo(MaxTextLen) \cup SpecialTexts}

\* update.effective_user.first_name
AllNames == {NoneV, Str(<<>>), Str(S(<<"A", "l", "i">>))}

OkBody(content) ==
    [json |-> TRUE, data |-> [choices |-> <<[message |-> [content |-> content]]>>]]

Http(status, body) == [kind |-> "http", status |-> status, body |-> body]

Contents ==
    { <<>>,
      S(<<" ", "\n", "\t">>),
      S(<<"h", "e", "l", "l", "o">>),
      S(<<" ", "h", "i", " ", "y", "o", "u", "\n">>),
      \* LINE TABULATION, NO-BREAK SPACE, EM SPACE: white space
      <<11>> \o S(<<"h", "e", "l", "l", "o">>),
      <<160, 8232, 28>>,
      <<160>> \o S(<<"h", "i">>) \o <<8195, 133>>,
      \* ZERO WIDTH SPACE: not white space
      <<8203>>,
      Rep("a", MaxReplyLength),
      Rep("a", MaxReplyLength + 1),
      S(<<" ">>) \o Rep("a", MaxReplyLength) \o S(<<"\n">>),
      S(<<" ">>) \o Rep("a", MaxReplyLength + 1),
      Rep("a", 5000) }

\* a body the program reads a reply from
Hello == OkBody(Str(S(<<"h", "e", "l", "l", "o">>)))

\* the exchanges that are no successful completion: an exception, a status
\* outside 200..299, a body that is not JSON or lacks the content string
FailedResponses ==
    { [kind |-> "timeout"],
      [kind |-> "network"],
      Http(500, [json |-> FALSE]) }
    \cup {Http(status, Hello) : status \in {100, 301, 304, 399, 400, 429, 500, 599}}
    \cup
    { Http(200, [json |-> FALSE]),
      Http(200, [json |-> TRUE, data |-> <<>>]),
      Http(200, [json |-> TRUE, data |-> [error |-> "quota"]]),
      Http(200, [json |-> TRUE, data |-> [choices |-> <<>>]]),
      Http(200, [json |-> TRUE, data |-> [choices |-> <<[index |-> 0]>>]]),
      Http(200, [json |-> TRUE,
                 data |-> [choices |-> <<[message |-> [role |-> "assistant"]]>>]]),
      Http(200, OkBody(NoneV)) }

\* the successful completions: a 2xx status and a body with a content string
SuccessResponses ==
    {Http(200, OkBody(Str(c))) : c \in Contents}
    \cup {Http(status, Hello) : status \in {201, 299}}

AllResponses == FailedResponses \cup SuccessResponses

\* the texts and responses every other input is combined with
ProbeTexts ==
    {NoneV, Str(<<>>), Str(S(<<"h", "e", "l", "l", "o">>)),
     Str(S(<<"I", "n", "a", " ", "k", "w", "a", "n", "a">>))}

ProbeResponses ==
    {[kind |-> "timeout"], Http(500, [json |-> FALSE]),
     Http(200, OkBody(Str(<<>>))), Http(200, OkBody(Str(S(<<"h", "e", "l", "l", "o">>))))}

\* every text with the probe responses, and every response with the probe texts
AllUpdates ==
    [text : AllTexts, first_name : AllNames, typing : {"ok", "fail"},
     completion : ProbeResponses, reply_send : {"ok", "fail"}]
    \cup
    [text : ProbeTexts, first_name : AllNames, typing : {"ok", "fail"},
     completion : AllResponses, reply_send : {"ok", "fail"}]

\* the updates of the runs that handle several messages at once
FewUpdates ==
    [text : {Str(<<>>), Str(S(<<"M", "e">>))},
     first_name : {Str(S(<<"A", "l", "i">>))},
     typing : {"ok", "fail"},
     completion : {Http(200, OkBody(Str(S(<<"h", "i">>)))),
                   Http(200, OkBody(Str(S(<<" ">>)))),
                   Http(500, [json |-> FALSE])},
     reply_send : {"ok", "fail"}]

SeqsUpTo(T, n) == UNION {[1..k -> T] : k \in 1..n}

\* the process environment: each variable unset, empty or set
Environments ==
    [TELEGRAM_TOKEN : {NoneV, Str(<<>>), Str(S(<<"t", "o", "k">>))},
     OPENAI_API_KEY : {NoneV, Str(<<>>), Str(S(<<"s", "k">>))}]

(***************************************************************************)
(* The state.                                                              *)
(***************************************************************************)
VARIABLES
    environ,          \* os.environ
    proc,             \* the process: "import", "exited", "loaded", "built", "polling"
    exit_message,     \* the argument of SystemExit, "" while none was raised
    TELEGRAM_TOKEN,   \* module global, a string
    OPENAI_API_KEY,   \* module global, an Optional[str]
    OPENAI_API_URL,   \* module global, "" while unbound
    OPENAI_MODEL,     \* module global, "" while unbound
    handlers,         \* the handlers registered with the application
    inbox,            \* the updates the transport delivers in this run
    inv               \* inv[i]: the handle_message invocation for inbox[i];
                      \* its locals, and in sent the texts passed to
                      \* reply_text

vars ==
    <<environ, proc, exit_message, TELEGRAM_TOKEN, OPENAI_API_KEY, OPENAI_API_URL,
      OPENAI_MODEL, handlers, inbox, inv>>

\* the request ask_openai_chat posts: requests.post(OPENAI_API_URL,
\* headers=headers, json=payload, timeout=30).  The temperature 0.7 is
\* written as the ratio <<7, 10>>.
BuildRequest(api_key, user_message, system_prompt) ==
    [url |-> OPENAI_API_URL,
     headers |->
        [h \in {"Authorization", "Content-Type"} |->
            IF h = "Authorization"
            THEN S(<<"B", "e", "a", "r", "e", "r", " ">>) \o api_key
            ELSE "application/json"],
     json |->
        [model |-> OPENAI_MODEL,
         messages |->
            (IF system_prompt # ""
             THEN <<[role |-> "system", content |-> system_prompt]>>
             ELSE <<>>)
            \o <<[role |-> "user", content |-> user_message]>>,
         max_tokens |-> 512,
         temperature |-> <<7, 10>>,
         n |-> 1],
     timeout |-> 30]

\* the system_prompt of handle_message
SYSTEM_PROMPT ==
    "You are a helpful assistant. Prefer replying in Hausa if the user's message appears to be in Hausa; otherwise reply in the user's language. Keep replies concise and friendly."

Updates == 1..Len(inbox)

\* an invocation that has not started
Pending ==
    [pc |-> "pending", user_text |-> <<>>, user_first_name |-> <<>>,
     reply |-> NoneV, hausa_keywords |-> <<>>, send_actions |-> 0,
     requests |-> <<>>, sent |-> <<>>]

InitProgram ==
    /\ proc = "import"
    /\ exit_message = ""
    /\ TELEGRAM_TOKEN = <<>>
    /\ OPENAI_API_KEY = NoneV
    /\ OPENAI_API_URL = ""
    /\ OPENAI_MODEL = ""
    /\ handlers = {}
    /\ inv = [i \in Updates |-> Pending]

\* several updates, handled concurrently
Init ==
    /\ environ \in Environments
    /\ inbox \in SeqsUpTo(FewUpdates, MaxUpdates)
    /\ InitProgram

\* one update, drawn from all texts, names and responses, in a process whose
\* transport token is set
InitResolve ==
    /\ environ \in {e \in Environments : Truthy(e.TELEGRAM_TOKEN)}
    /\ inbox \in {<<u>> : u \in AllUpdates}
    /\ InitProgram

(***************************************************************************)
(* Process start: the module body and main().                              *)
(***************************************************************************)
\* os.environ.get(name, default), for a string default
EnvGet(value, default) == IF value.tag = "none" THEN default ELSE value.val

\* a mutant of ConfigError: the check of the required token is dropped
ConfigErrorIgnored(token) == FALSE

\* not TELEGRAM_TOKEN
ConfigError(token) == token = <<>>

\* the module body: read the configuration, exit when the token is missing,
\* bind the endpoint and the model name otherwise
ImportModule ==
    /\ proc = "import"
    /\ TELEGRAM_TOKEN' = EnvGet(environ.TELEGRAM_TOKEN, <<>>)
    /\ OPENAI_API_KEY' = environ.OPENAI_API_KEY
    /\ IF ConfigError(TELEGRAM_TOKEN')
       THEN /\ proc' = "exited"
            /\ exit_message' = "Error: TELEGRAM_TOKEN environment variable is required."
            /\ UNCHANGED <<OPENAI_API_URL, OPENAI_MODEL>>
       ELSE /\ proc' = "loaded"
            /\ OPENAI_API_URL' = "https://api.openai.com/v1/chat/completions"
            /\ OPENAI_MODEL' = "gpt-3.5-turbo"
            /\ UNCHANGED exit_message
    /\ UNCHANGED <<environ, handlers, inbox, inv>>

\* main(): build the application and register the four handlers
BuildApp ==
    /\ proc = "loaded"
    /\ handlers' = {"start", "help", "echo", "message"}
    /\ proc' = "built"
    /\ UNCHANGED <<environ, exit_message, TELEGRAM_TOKEN, OPENAI_API_KEY, OPENAI_API_URL,
                   OPENAI_MODEL, inbox, inv>>

\* main(): app.run_polling()
RunPolling ==
    /\ proc = "built"
    /\ proc' = "polling"
    /\ UNCHANGED <<environ, exit_message, TELEGRAM_TOKEN, OPENAI_API_KEY, OPENAI_API_URL,
                   OPENAI_MODEL, handlers, inbox, inv>>

(***************************************************************************)
(* handle_message, one action per stretch between two suspension points:   *)
(* an awaited call is one action that makes the call and suspends, and one *)
(* that resumes with the outcome of the call.                              *)
(***************************************************************************)
\* a mutant of InboundText: the text is read from a slot every handler shares
InboundTextShared(i) == inbox[1].text

\* update.message.text of the invocation's own update
InboundText(i) == inbox[i].text

SenderFirstName(i) == inbox[i].first_name

Step(i, new) ==
    /\ inv' = [inv EXCEPT ![i] = new]
    /\ UNCHANGED <<environ, proc, exit_message, TELEGRAM_TOKEN, OPENAI_API_KEY,
                   OPENAI_API_URL, OPENAI_MODEL, handlers, inbox>>

\* the transport dispatches update i; the handler reads its two inputs and
\* branches on the key
HandleMessage(i) ==
    /\ proc = "polling"
    /\ "message" \in handlers
    /\ inv[i].pc = "pending"
    /\ Step(i, [inv[i] EXCEPT
            !.user_text = OrElse(InboundText(i), <<>>),
            !.user_first_name = OrElse(SenderFirstName(i), S(<<"U", "s", "e", "r">>)),
            !.pc = IF Truthy(OPENAI_API_KEY) THEN "send_action" ELSE "fallback"])

\* update.message.chat.send_action("typing") is called and awaited
SendAction(i) ==
    /\ inv[i].pc = "send_action"
    /\ Step(i, [inv[i] EXCEPT !.send_actions = @ + 1, !.pc = "typing"])

\* the awaited send_action ends: an exception of the transport is not caught,
\* and ends the invocation
SendActionReturns(i) ==
    /\ inv[i].pc = "typing"
    /\ Step(i, [inv[i] EXCEPT
            !.pc = IF inbox[i].typing = "ok" THEN "executor" ELSE "raised"])

\* run_in_executor(None, ask_openai_chat, ...): the request is posted
PostRequest(i) ==
    /\ inv[i].pc = "executor"
    /\ Step(i, [inv[i] EXCEPT
            !.requests = Append(@, BuildRequest(OPENAI_API_KEY.val,
                                                inv[i].user_text, SYSTEM_PROMPT)),
            !.pc = "awaiting"])

\* ask_openai_chat returns; the handler tests  if reply
CompletionReturns(i) ==
    /\ inv[i].pc = "awaiting"
    /\ LET reply == ask_openai_chat(OPENAI_API_KEY, inbox[i].completion)
       IN Step(i, [inv[i] EXCEPT
               !.reply = reply,
               !.pc = IF Truthy(reply) THEN "reply_text" ELSE "fallback"])

\* update.message.reply_text(text) is called and awaited, in an invocation
\* whose locals are those of frame
ReplyText(i, frame, text) ==
    Step(i, [frame EXCEPT !.sent = Append(@, text), !.pc = "replying"])

\* the completion path: the local reply is replaced by its truncation, and
\* sent
ReplyCompletion(i) ==
    /\ inv[i].pc = "reply_text"
    /\ LET reply == Truncate(inv[i].reply.val)
       IN ReplyText(i, [inv[i] EXCEPT !.reply = Str(reply)], reply)

\* the fallback responder: build the keyword list, pick the template and
\* reply
ReplyFallback(i) ==
    /\ inv[i].pc = "fallback"
    /\ ReplyText(i, [inv[i] EXCEPT !.hausa_keywords = hausa_keywords],
                 FallbackReply(inv[i].user_text, inv[i].user_first_name))

\* the awaited reply_text ends: an exception of the transport is not caught,
\* and ends the invocation
ReplyTextReturns(i) ==
    /\ inv[i].pc = "replying"
    /\ Step(i, [inv[i] EXCEPT
            !.pc = IF inbox[i].reply_send = "ok" THEN "done" ELSE "raised"])

Next ==
    \/ ImportModule
    \/ BuildApp
    \/ RunPolling
    \/ \E i \in Updates : HandleMessage(i)
    \/ \E i \in Updates : SendAction(i)
    \/ \E i \in Updates : SendActionReturns(i)
    \/ \E i \in Updates : PostRequest(i)
    \/ \E i \in Updates : CompletionReturns(i)
    \/ \E i \in Updates : ReplyCompletion(i)
    \/ \E i \in Updates : ReplyFallback(i)
    \/ \E i \in Updates : ReplyTextReturns(i)

Spec == Init /\ [][Next]_vars

SpecResolve == InitResolve /\ [][Next]_vars

(***************************************************************************)
(* Vocabulary of the properties.                                           *)
(***************************************************************************)
\* the completion credential is configured
KeyConfigured == Truthy(environ.OPENAI_API_KEY)

\* the invocation for update i has ended, by return or by exception
Ended(i) == inv[i].pc \in {"done", "raised"}
\* ... after it passed a text to reply_text, delivered or not
Replied(i) == Ended(i) /\ inv[i].sent # <<>>

\* the inputs of invocation i as the handler reads them
TextOf(i) == IF inbox[i].text.tag = "str" THEN inbox[i].text.val ELSE <<>>
NameOf(i) ==
    IF inbox[i].first_name.tag = "str" /\ inbox[i].first_name.val # <<>>
    THEN inbox[i].first_name.val
    ELSE S(<<"U", "s", "e", "r">>)

\* the content string of a successful response
ContentOf(i) == inbox[i].completion.body.data.choices[1].message.content.val

\* s without the whitespace at its two ends, by positions
Trimmed(s) ==
    IF \A p \in 1..Len(s) : s[p] \in Whitespace THEN <<>>
    ELSE LET first == CHOOSE p \in 1..Len(s) :
                        s[p] \notin Whitespace /\ \A q \in 1..(p - 1) : s[q] \in Whitespace
             last == CHOOSE p \in 1..Len(s) :
                        s[p] \notin Whitespace /\ \A q \in (p + 1)..Len(s) : s[q] \in Whitespace
         IN [p \in 1..(last - first + 1) |-> s[first + p - 1]]

EndsWith(s, t) == Len(t) <= Len(s) /\ SubSeq(s, Len(s) - Len(t) + 1, Len(s)) = t

\* the reply for content c that passes the length guard
Guarded(c) ==
    IF Len(c) > MaxReplyLength
    THEN [p \in 1..(MaxReplyLength - 96 + Len(TruncationMarker)) |->
            IF p <= MaxReplyLength - 96 THEN c[p]
            ELSE TruncationMarker[p - (MaxReplyLength - 96)]]
    ELSE c

\* the keywords as the specification lists them
KeywordSet ==
    { S(<<"i", "n", "a">>), S(<<"y", "a", "y", "a">>), S(<<"l", "a", "f", "i", "y", "a">>),
      S(<<"n", "a", " ", "g", "o", "d", "e">>), S(<<"s", "a", "n", "n", "u">>),
      S(<<"a", "s", "s", "a", "l", "a", "m", "u">>), S(<<"s", "a", "l", "a", "m">>),
      S(<<"k", "w", "a", "n", "a", "k", "i">>), S(<<"m", "e">>) }

\* u holds keyword k at offset p
KeywordAt(u, k, p) == \A j \in 1..Len(k) : u[p + j] = k[j]

\* the lower-cased t contains a keyword
HasKeyword(t) ==
    LET u == Lower(t)
    IN \E k \in KeywordSet : \E p \in 0..(Len(u) - Len(k)) : KeywordAt(u, k, p)

\* the two templates, written out
HausaTemplate(t, n) ==
    S(<<"N", "a", " ", "j", "i", " ", "s", "a", "k", "o", "n", "k", "a", ",", " ">>)
    \o n \o
    S(<<".", " ">>) \o <<127800>> \o S(<<"\n", "K", "a", "/", "k", "i", " ", "r", "u", "b", "u",
      "t", "a", ":", " ", "\"">>)
    \o t \o HausaTail

EnglishTemplate(t) ==
    S(<<"I", " ", "h", "e", "a", "r", "d", " ", "y", "o", "u", ":", " ", "\"">>)
    \o t \o EnglishTail

\* the reply of the no-credential case for text t and sender name n
NoCredentialReply(t, n) ==
    IF HasKeyword(t) THEN HausaTemplate(t, n) ELSE EnglishTemplate(t)

(***************************************************************************)
(* C1.  Every handling of an inbound message ends having sent exactly one  *)
(* reply, whatever the credential, the outcome of the typing indicator and *)
(* the outcome of the completion call: never zero replies, never two.      *)
(***************************************************************************)
C1_ExactlyOneReply ==
    \A i \in Updates :
        /\ Len(inv[i].sent) <= 1
        /\ Ended(i) => Len(inv[i].sent) = 1

(***************************************************************************)
(* C2.  Every reply text passed to the reply-send operation is non-empty   *)
(* and at most 4096 characters long, on the completion path and on the     *)
(* fallback path, for every inbound text of length 0 to 4096.              *)
(***************************************************************************)
C2_ReplyWithinLimit ==
    \A i \in Updates :
        \A r \in 1..Len(inv[i].sent) :
            /\ Len(inv[i].sent[r]) >= 1
            /\ Len(inv[i].sent[r]) <= MaxReplyLength

(***************************************************************************)
(* C3.  With a credential configured, when the completion call fails (a    *)
(* status outside 200..299, a timeout, a network error, a body that is not *)
(* JSON or lacks the expected fields) the reply sent is the reply of the   *)
(* no-credential case for the same text and sender name, and the           *)
(* completion path does not reply; no error text reaches the user.         *)
(***************************************************************************)
C3_FailureFallsBack ==
    \A i \in Updates :
        (/\ KeyConfigured
         /\ inbox[i].completion \in FailedResponses
         /\ inv[i].requests # <<>>)
        => /\ inv[i].pc # "reply_text"
           /\ inv[i].sent # <<>> =>
                inv[i].sent = <<NoCredentialReply(TextOf(i), NameOf(i))>>

(***************************************************************************)
(* C4.  With a credential configured and a successful completion whose     *)
(* trimmed content is longer than 4096 characters, the reply is the first  *)
(* 4000 characters of the content followed by the truncation marker: at    *)
(* most 4096 long, ending with the marker.  Content of length 4096 or less *)
(* that is sent is sent untruncated.                                       *)
(***************************************************************************)
C4_Truncation ==
    \A i \in Updates :
        (/\ KeyConfigured
         /\ inbox[i].completion \in SuccessResponses
         /\ Replied(i))
        => LET c == Strip(ContentOf(i))
           IN /\ Len(c) > MaxReplyLength =>
                    /\ inv[i].sent = <<SubSeq(c, 1, MaxReplyLength - 96) \o TruncationMarker>>
                    /\ Len(inv[i].sent[1]) <= MaxReplyLength
                    /\ EndsWith(inv[i].sent[1], TruncationMarker)
              /\ (c # <<>> /\ Len(c) <= MaxReplyLength) => inv[i].sent = <<c>>

C4_Witness ==
    \E i \in Updates :
        /\ KeyConfigured
        /\ inbox[i].completion \in SuccessResponses
        /\ Replied(i)
        /\ Len(Strip(ContentOf(i))) > MaxReplyLength
        /\ Len(inv[i].sent) = 1
        /\ EndsWith(inv[i].sent[1], TruncationMarker)

(***************************************************************************)
(* C5, as claimed.  With a credential configured, for every successful     *)
(* completion the reply is the trimmed content (truncated above 4096) and  *)
(* the fallback responder is not used, also when the content is empty or   *)
(* only whitespace.                                                        *)
(***************************************************************************)
C5_Original ==
    \A i \in Updates :
        (/\ KeyConfigured
         /\ inbox[i].completion \in SuccessResponses
         /\ Replied(i))
        => inv[i].sent = <<Guarded(Trimmed(ContentOf(i)))>>

(***************************************************************************)
(* C5, amended.  With a credential configured, for every successful        *)
(* completion whose trimmed content is not empty the reply is exactly the  *)
(* trimmed content (truncated above 4096) and the fallback responder is    *)
(* not used; when the trimmed content is empty the fallback reply is sent. *)
(***************************************************************************)
C5_ContentIsReply ==
    \A i \in Updates :
        (/\ KeyConfigured
         /\ inbox[i].completion \in SuccessResponses
         /\ Replied(i))
        => LET c == Trimmed(ContentOf(i))
           IN IF c # <<>>
              THEN inv[i].sent = <<Guarded(c)>>
              ELSE inv[i].sent = <<FallbackReply(TextOf(i), NameOf(i))>>

C5_Witness ==
    \E i \in Updates :
        /\ KeyConfigured
        /\ inbox[i].completion \in SuccessResponses
        /\ Replied(i)
        /\ ContentOf(i) # Trimmed(ContentOf(i))
        /\ Trimmed(ContentOf(i)) # <<>>
        /\ inv[i].sent = <<Trimmed(ContentOf(i))>>

(***************************************************************************)
(* C6.  With no credential configured, for every inbound text T (the empty *)
(* string and a missing text included) and sender name N: when the         *)
(* lower-cased T contains one of the nine keywords the reply is the Hausa  *)
(* template holding N and T verbatim, otherwise it is the English echo     *)
(* template quoting T verbatim; the empty T yields the English template.   *)
(***************************************************************************)
C6_FallbackTemplates ==
    \A i \in Updates :
        (~KeyConfigured /\ Replied(i))
        => /\ inv[i].requests = <<>>
           /\ inv[i].sent =
                <<IF HasKeyword(TextOf(i))
                  THEN HausaTemplate(TextOf(i), NameOf(i))
                  ELSE EnglishTemplate(TextOf(i))>>
           /\ TextOf(i) = <<>> => inv[i].sent = <<EnglishTemplate(<<>>)>>

C6_Witness ==
    \E i \in Updates :
        /\ ~KeyConfigured
        /\ Replied(i)
        /\ HasKeyword(TextOf(i))
        /\ ~\E k \in KeywordSet : Contains(TextOf(i), k)
        /\ inv[i].sent = <<HausaTemplate(TextOf(i), NameOf(i))>>

(***************************************************************************)
(* C7.  Handling one inbound message makes at most one completion call:    *)
(* none when no credential is configured, exactly one when a credential is *)
(* configured, never a second one, and none once the fallback path has     *)
(* been entered.                                                           *)
(***************************************************************************)
C7_OneCompletionCall ==
    \A i \in Updates :
        /\ Len(inv[i].requests) <= 1
        /\ ~KeyConfigured => inv[i].requests = <<>>
        /\ (KeyConfigured /\ Ended(i)) => Len(inv[i].requests) = 1
        /\ (inv[i].pc = "fallback" /\ KeyConfigured) => Len(inv[i].requests) = 1

(***************************************************************************)
(* C8.  When TELEGRAM_TOKEN is absent or empty at process start the        *)
(* process exits at once, with a message that names the missing variable,  *)
(* and nothing is started: no handler is registered, polling never starts  *)
(* and no inbound message is ever handled.                                 *)
(***************************************************************************)
C8_NoPartialStartup ==
    ~Truthy(environ.TELEGRAM_TOKEN)
    => /\ proc \in {"import", "exited"}
       /\ proc = "exited" =>
            exit_message = "Error: TELEGRAM_TOKEN environment variable is required."
       /\ handlers = {}
       /\ \A i \in Updates : inv[i] = Pending

C8_Witness ==
    /\ ~Truthy(environ.TELEGRAM_TOKEN)
    /\ proc = "exited"
    /\ inbox # <<>>

(***************************************************************************)
(* C9.  With a credential configured the typing indicator is invoked       *)
(* exactly once per message and before the completion call; it is never    *)
(* invoked without a credential; and its failure is ignored, so that the   *)
(* completion call and the reply still happen.                             *)
(***************************************************************************)
C9_TypingIndicator ==
    \A i \in Updates :
        /\ inv[i].send_actions <= 1
        /\ ~KeyConfigured => inv[i].send_actions = 0
        /\ inv[i].requests # <<>> => inv[i].send_actions = 1
        /\ (KeyConfigured /\ Ended(i)) =>
                /\ inv[i].send_actions = 1
                /\ Len(inv[i].requests) = 1
                /\ Len(inv[i].sent) = 1

(***************************************************************************)
(* C10.  Under any interleaving of handle_message invocations the reply    *)
(* sent for a message is determined by that message's own text, its        *)
(* sender's name and its own completion outcome, and the configuration     *)
(* (credentials, handlers) is the one read at start, unchanged by any      *)
(* invocation.                                                             *)
(***************************************************************************)
\* a successful completion: a 2xx status and a JSON body whose
\* choices[0].message.content is a string
Successful(resp) ==
    /\ resp.kind = "http"
    /\ resp.status \in 200..299
    /\ resp.body.json
    /\ resp.body.data \in [choices : Seq([message : [content : [tag : {"str"}, val : Seq(Nat)]]])]
    /\ resp.body.data.choices # <<>>

OwnReply(u) ==
    LET text == IF u.text.tag = "str" THEN u.text.val ELSE <<>>
        name == IF u.first_name.tag = "str" /\ u.first_name.val # <<>>
                THEN u.first_name.val
                ELSE S(<<"U", "s", "e", "r">>)
        content ==
            IF KeyConfigured /\ Successful(u.completion)
            THEN Trimmed(u.completion.body.data.choices[1].message.content.val)
            ELSE <<>>
    IN IF content # <<>> THEN Guarded(content) ELSE NoCredentialReply(text, name)

C10_NoInterference ==
    /\ \A i \in Updates :
        /\ inv[i].pc # "pending" =>
                /\ inv[i].user_text = TextOf(i)
                /\ inv[i].user_first_name = NameOf(i)
        /\ inv[i].sent # <<>> => inv[i].sent = <<OwnReply(inbox[i])>>
        /\ inv[i].hausa_keywords # <<>> =>
                /\ Len(inv[i].hausa_keywords) = Cardinality(KeywordSet)
                /\ {inv[i].hausa_keywords[j] : j \in 1..Len(inv[i].hausa_keywords)}
                        = KeywordSet
    /\ (\E i \in Updates : inv[i].pc # "pending") =>
        /\ OPENAI_API_KEY = environ.OPENAI_API_KEY
        /\ TELEGRAM_TOKEN = environ.TELEGRAM_TOKEN.val
        /\ OPENAI_API_URL = "https://api.openai.com/v1/chat/completions"
        /\ OPENAI_MODEL = "gpt-3.5-turbo"
        /\ handlers = {"start", "help", "echo", "message"}
        /\ proc = "polling"

\* one invocation is suspended in its reply send, having passed its own
\* reply, while another, of another text and with another completion, is
\* suspended at the typing indicator
C10_Witness ==
    \E i, j \in Updates :
        /\ i # j
        /\ TextOf(i) # TextOf(j)
        /\ inbox[i].completion # inbox[j].completion
        /\ inv[i].pc = "replying"
        /\ inv[i].sent = <<OwnReply(inbox[i])>>
        /\ inv[i].requests # <<>>
        /\ inv[j].pc = "typing"

=============================================================================
